---- MODULE Spec2Model ----
(***************************************************************************)
(* Host shell of the ferris-intelligence micro-frontend workspace.         *)
(*                                                                         *)
(* The shell (App) is a react-router v6 route table whose elements are     *)
(* either a local view (NxWelcome) or a React.lazy wrapper around a        *)
(* federated remote module (ContactUs, ComingSoon, LandingPage), all       *)
(* inside one React.Suspense boundary that also contains the navigation    *)
(* links.  Three App variants exist in the source:                         *)
(*   "shell"      apps/landing-page/src/app/app.tsx lines 100-154          *)
(*   "shellPrev"  apps/landing-page/src/app/app.tsx lines 156-187          *)
(*   "host"       apps/coming-soon/src/app/app.tsx                         *)
(*                                                                         *)
(* A path is the sequence of its segments: "/" is << >>, "/contact-us" is  *)
(* <<"contact-us">>.  A route pattern is a path whose last segment may be  *)
(* the splat "*".                                                          *)
(***************************************************************************)
EXTENDS Naturals, Integers, Sequences, FiniteSets, TLC

VARIABLES
    variant,   \* which App is mounted
    entries,   \* browser history stack: sequence of [pathname, state]
    index,     \* position of the current entry in the history stack
    match,     \* router state: [pathname, route |-> index in the table or 0, rest |-> splat remainder]
    lazy,      \* React.lazy payload status per remote name
    fetches,   \* number of import() calls issued per remote name
    inflight,  \* number of import() promises not yet settled per remote name
    reads,     \* number of times a render read the lazy component per remote name
    settled,   \* remote names in the order their import() settled
    settledAway, \* remote names whose import() settled while another route was current
    test,      \* the run of a unit test of ./app: module, phase, query, result
    screen,    \* what the root shows: [kind, el, rest]
    navs       \* number of navigation events since load

vars == <<variant, entries, index, match, lazy, fetches, inflight, reads, settled, settledAway, screen, navs, test>>

----------------------------------------------------------------------------
(* Bounds *)

MaxNavs == 3

----------------------------------------------------------------------------
(* Remote names, elements, route tables, links *)

RemoteNames == {"contactUs", "comingSoon", "landingPage"}

Variants == {"shell", "shellPrev", "host"}

NxWelcome == [el |-> "NxWelcome", remote |-> "none"]

ContactUs == [el |-> "ContactUs", remote |-> "contactUs"]

ComingSoon == [el |-> "ComingSoon", remote |-> "comingSoon"]

LandingPage == [el |-> "LandingPage", remote |-> "landingPage"]

\* ShellRoutes with the home route given a remote element.
ShellRoutes_remoteHome ==
    << [path |-> << >>,              element |-> ContactUs],
       [path |-> <<"contact-us">>,   element |-> ContactUs],
       [path |-> <<"coming-soon">>,  element |-> ComingSoon],
       [path |-> <<"landing">>,      element |-> LandingPage] >>

ShellRoutes ==
    << [path |-> << >>,              element |-> NxWelcome],
       [path |-> <<"contact-us">>,   element |-> ContactUs],
       [path |-> <<"coming-soon">>,  element |-> ComingSoon],
       [path |-> <<"landing">>,      element |-> LandingPage] >>

ShellPrevRoutes ==
    << [path |-> << >>,              element |-> NxWelcome],
       [path |-> <<"contact-us">>,   element |-> ContactUs],
       [path |-> <<"coming-soon">>,  element |-> ComingSoon] >>

\* HostRoutes with a catch-all not-found route added at the end.
HostRoutes_catchAll ==
    << [path |-> << >>,              element |-> ComingSoon],
       [path |-> <<"contact", "*">>, element |-> ContactUs],
       [path |-> <<"*">>,            element |-> [el |-> "NotFound", remote |-> "none"]] >>

\* HostRoutes with the home route written as a catch-all, declared first.
HostRoutes_splatHome ==
    << [path |-> <<"*">>,            element |-> ComingSoon],
       [path |-> <<"contact", "*">>, element |-> ContactUs] >>

HostRoutes ==
    << [path |-> << >>,              element |-> ComingSoon],
       [path |-> <<"contact", "*">>, element |-> ContactUs] >>

AppRoutes(v) ==
    CASE v = "shell"     -> ShellRoutes
      [] v = "shellPrev" -> ShellPrevRoutes
      [] v = "host"      -> HostRoutes

\* The lazy component that wraps each remote module.
LazyEl(name) ==
    CASE name = "contactUs"   -> ContactUs.el
      [] name = "comingSoon"  -> ComingSoon.el
      [] name = "landingPage" -> LandingPage.el

ShellLinks == { << >>, <<"contact-us">>, <<"coming-soon">>, <<"landing">> }

ShellPrevLinks == { << >>, <<"contact-us">>, <<"coming-soon">> }

\* HostLinks with the contact link pointing at the shell's path.
HostLinks_shellPath == { << >>, <<"contact-us">> }

HostLinks == { << >>, <<"contact">> }

AppLinks(v) ==
    CASE v = "shell"     -> ShellLinks
      [] v = "shellPrev" -> ShellPrevLinks
      [] v = "host"      -> HostLinks

\* Locations the application can be loaded at (direct URL).
Paths ==
    { << >>, <<"contact-us">>, <<"contact-us", "success">>, <<"coming-soon">>,
      <<"landing">>, <<"contact">>, <<"contact", "success">>, <<"unknown-xyz">> }

----------------------------------------------------------------------------
(* react-router route matching *)

isSplat(s) == s = "*"

HasSplat(pattern) == Len(pattern) > 0 /\ isSplat(pattern[Len(pattern)])

Prefix(pattern) == IF HasSplat(pattern) THEN SubSeq(pattern, 1, Len(pattern) - 1) ELSE pattern

\* matchPath with end = true: literal segments must be equal; a trailing
\* splat binds the remainder of the path (possibly empty).
matchPath(pattern, pathname) ==
    IF HasSplat(pattern)
    THEN /\ Len(pathname) >= Len(Prefix(pattern))
         /\ SubSeq(pathname, 1, Len(Prefix(pattern))) = Prefix(pattern)
    ELSE pathname = pattern

\* splatRest that starts one segment too late.
splatRest_dropFirst(pattern, pathname) ==
    IF HasSplat(pattern)
    THEN SubSeq(pathname, Len(pattern) + 1, Len(pathname))
    ELSE << >>

\* params["*"]: the part of the path after the mount prefix.
splatRest(pattern, pathname) ==
    IF HasSplat(pattern)
    THEN SubSeq(pathname, Len(pattern), Len(pathname))
    ELSE << >>

\* computeScore: "/a/b".split("/") has one leading empty segment ("/" has
\* two); an empty segment scores 1, a static one 10, a splat costs 2.
computeScore(pattern) ==
    LET nStatic == Len(Prefix(pattern))
        nEmpty  == IF pattern = << >> THEN 2 ELSE 1
        nSegs   == IF pattern = << >> THEN 2 ELSE Len(pattern) + 1
    IN  (nSegs + nEmpty + 10 * nStatic) - (IF HasSplat(pattern) THEN 2 ELSE 0)

\* rankRouteBranches: higher score first, siblings of equal score in
\* declaration order.
RanksBefore(routes, i, j) ==
    \/ computeScore(routes[i].path) > computeScore(routes[j].path)
    \/ /\ computeScore(routes[i].path) = computeScore(routes[j].path)
       /\ i < j

\* matchRoutes: the first branch in rank order that matches; 0 when none.
matchRoutes(routes, pathname) ==
    LET M == { i \in 1..Len(routes) : matchPath(routes[i].path, pathname) }
    IN  IF M = {}
        THEN [pathname |-> pathname, route |-> 0, rest |-> << >>]
        ELSE LET i == CHOOSE k \in M : \A j \in M \ {k} : RanksBefore(routes, k, j)
             IN  [pathname |-> pathname, route |-> i, rest |-> splatRest(routes[i].path, pathname)]

----------------------------------------------------------------------------
(* React.lazy and the Suspense boundary *)

Status == {"uninit", "pending", "resolved", "rejected"}

Screen(kind, el, rest) == [kind |-> kind, el |-> el, rest |-> rest]

\* The fallback prop of the Suspense boundary of each App.
SuspenseFallback(v) == IF v = "host" THEN "Loading..." ELSE "null"

\* lazyInitializer that calls the loader again while the promise is pending.
lazyInitializer_noDedup(s) ==
    [status |-> IF s = "uninit" THEN "pending" ELSE s, fetch |-> s \in {"uninit", "pending"}]

\* lazyInitializer that starts over after a rejection.
lazyInitializer_retryRejected(s) ==
    [status |-> IF s \in {"uninit", "rejected"} THEN "pending" ELSE s,
     fetch  |-> s \in {"uninit", "rejected"}]

\* lazyInitializer that drops a resolved module and suspends again.
lazyInitializer_forget(s) ==
    [status |-> IF s \in {"uninit", "resolved"} THEN "pending" ELSE s, fetch |-> s = "uninit"]

\* lazyInitializer: the loader passed to React.lazy is called on the first
\* read only; every later read reuses the stored promise or its outcome.
lazyInitializer(s) ==
    [status |-> IF s = "uninit" THEN "pending" ELSE s, fetch |-> s = "uninit"]

\* One render pass of App at a location: Routes picks the route, the
\* element is rendered inside the Suspense boundary that also holds the
\* navigation links.  A pending lazy element suspends the boundary, a
\* rejected one throws and, with no error boundary above it, React
\* unmounts the root.  With no route matched Routes renders nothing.
RenderApp(v, pathname, lz) ==
    LET m == matchRoutes(AppRoutes(v), pathname)
    IN  IF m.route = 0
        THEN [match |-> m, read |-> "none", screen |-> Screen("nomatch", "none", << >>)]
        ELSE LET e == AppRoutes(v)[m.route].element
             IN  IF e.remote = "none"
                 THEN [match |-> m, read |-> "none", screen |-> Screen("view", e.el, m.rest)]
                 ELSE LET s == lazyInitializer(lz[e.remote]).status
                      IN  [match  |-> m,
                           read   |-> e.remote,
                           screen |-> CASE s = "resolved" -> Screen("view", e.el, m.rest)
                                        [] s = "rejected" -> Screen("unmounted", "none", << >>)
                                        [] OTHER          -> Screen("fallback", SuspenseFallback(v), << >>)]

\* retryRender that puts the module that has just resolved on screen.
retryRender_showSettled(v, pathname, lz, name) ==
    IF lz[name] = "resolved"
    THEN [RenderApp(v, pathname, lz) EXCEPT !.screen = Screen("view", LazyEl(name), << >>)]
    ELSE RenderApp(v, pathname, lz)

\* retryRender that still sees the promise as pending: the boundary is not
\* rendered again with the outcome.
retryRender_stale(v, pathname, lz, name) ==
    RenderApp(v, pathname, [lz EXCEPT ![name] = "pending"])

\* The render React schedules when a suspended promise settles: the
\* boundary is rendered again with the current location.
retryRender(v, pathname, lz, name) == RenderApp(v, pathname, lz)

\* Effect of a render pass on the lazy payloads and the import() calls.
LazyAfter(lz, r) ==
    IF r = "none" THEN lz ELSE [lz EXCEPT ![r] = lazyInitializer(lz[r]).status]

Issued(lz, r) == r # "none" /\ lazyInitializer(lz[r]).fetch

Bump(f, r, cond) == IF cond THEN [f EXCEPT ![r] = @ + 1] ELSE f

Unmounted == screen.kind = "unmounted"

\* The links live inside the Suspense boundary: they are on screen only
\* when the boundary shows its content.
NavRendered == screen.kind \in {"view", "nomatch"}

Current == entries[index].pathname

\* The remote behind the element of the route that matches a location
\* ("none" for a local element or no route).
RouteRemote(v, pathname) ==
    LET m == matchRoutes(AppRoutes(v), pathname)
    IN  IF m.route = 0 THEN "none" ELSE AppRoutes(v)[m.route].element.remote

Entry(p) == [pathname |-> p, state |-> "null"]

----------------------------------------------------------------------------
(* Initial load: BrowserRouter reads the location, App renders once. *)

InitApp ==
    /\ variant \in Variants
    /\ \E p \in Paths :
         LET lz0 == [n \in RemoteNames |-> "uninit"]
             r   == RenderApp(variant, p, lz0)
         IN  /\ entries = << Entry(p) >>
             /\ index = 1
             /\ match = r.match
             /\ lazy = LazyAfter(lz0, r.read)
             /\ fetches = Bump([n \in RemoteNames |-> 0], r.read, Issued(lz0, r.read))
             /\ inflight = Bump([n \in RemoteNames |-> 0], r.read, Issued(lz0, r.read))
             /\ reads = Bump([n \in RemoteNames |-> 0], r.read, r.read # "none")
             /\ screen = r.screen
    /\ settled = << >>
    /\ settledAway = {}
    /\ navs = 0

\* No unit test runs beside the application.
NoTest == [app |-> "none", phase |-> "none", baseElement |-> "none",
           pattern |-> "", flags |-> "", found |-> 0]

Init == InitApp /\ test = NoTest

\* Commit that aborts the imports still pending for other routes.
Commit_abort(p) ==
    LET r   == RenderApp(variant, p, lazy)
        lz1 == LazyAfter(lazy, r.read)
        gone(n) == n # r.read /\ lz1[n] = "pending"
    IN  /\ match' = r.match
        /\ lazy' = [n \in RemoteNames |-> IF gone(n) THEN "uninit" ELSE lz1[n]]
        /\ fetches' = Bump(fetches, r.read, Issued(lazy, r.read))
        /\ inflight' = [n \in RemoteNames |->
                          IF gone(n) THEN 0 ELSE Bump(inflight, r.read, Issued(lazy, r.read))[n]]
        /\ reads' = Bump(reads, r.read, r.read # "none")
        /\ screen' = r.screen

\* Commit that also starts the import of the contact remote ahead of need.
Commit_preload(p) ==
    LET pre == lazy["contactUs"] = "uninit"
        lz0 == [lazy EXCEPT !["contactUs"] = IF pre THEN "pending" ELSE @]
        r   == RenderApp(variant, p, lz0)
    IN  /\ match' = r.match
        /\ lazy' = LazyAfter(lz0, r.read)
        /\ fetches' = Bump(Bump(fetches, "contactUs", pre), r.read, Issued(lz0, r.read))
        /\ inflight' = Bump(Bump(inflight, "contactUs", pre), r.read, Issued(lz0, r.read))
        /\ reads' = Bump(reads, r.read, r.read # "none")
        /\ screen' = r.screen

\* The router state changes to the new location and App renders.
Commit(p) ==
    LET r == RenderApp(variant, p, lazy)
    IN  /\ match' = r.match
        /\ lazy' = LazyAfter(lazy, r.read)
        /\ fetches' = Bump(fetches, r.read, Issued(lazy, r.read))
        /\ inflight' = Bump(inflight, r.read, Issued(lazy, r.read))
        /\ reads' = Bump(reads, r.read, r.read # "none")
        /\ screen' = r.screen

\* <Link to=...> activated: replaces the entry when the target is the
\* current location, pushes otherwise (dropping the forward entries).
ClickLink(to) ==
    /\ NavRendered
    /\ navs < MaxNavs
    /\ to \in AppLinks(variant)
    /\ IF to = Current
       THEN /\ entries' = [entries EXCEPT ![index] = Entry(to)]
            /\ index' = index
       ELSE /\ entries' = Append(SubSeq(entries, 1, index), Entry(to))
            /\ index' = index + 1
    /\ Commit(to)
    /\ navs' = navs + 1
    /\ UNCHANGED <<variant, settled, settledAway, test>>

\* Browser back / forward.  After the root was unmounted nothing listens
\* to the history any more: the location moves and nothing renders.
Go(delta) ==
    /\ navs < MaxNavs
    /\ index + delta \in 1..Len(entries)
    /\ index' = index + delta
    /\ navs' = navs + 1
    /\ IF Unmounted
       THEN UNCHANGED <<match, lazy, fetches, inflight, reads, screen>>
       ELSE Commit(entries[index + delta].pathname)
    /\ UNCHANGED <<variant, entries, settled, settledAway, test>>

Back == Go(-1)

Forward == Go(1)

\* importOutcome with a catch that turns a rejection into a module.
importOutcome_caught(ok) == "resolved"

\* importOutcome of a loader whose promise never reaches the lazy payload.
importOutcome_lost(ok) == "pending"

\* The outcome React.lazy records for a settled import(): the loaders have
\* no catch, a rejection stays a rejection.
importOutcome(ok) == IF ok THEN "resolved" ELSE "rejected"

\* FetchSettled that throws the module away when its route is not current.
FetchSettled_dropStale(name, ok) ==
    /\ inflight[name] > 0
    /\ settled' = Append(settled, name)
    /\ settledAway' = IF RouteRemote(variant, Current) = name THEN settledAway ELSE settledAway \cup {name}
    /\ LET used == matchRoutes(AppRoutes(variant), Current).route # 0
                   /\ AppRoutes(variant)[matchRoutes(AppRoutes(variant), Current).route].element.remote = name
           lz1  == IF lazy[name] = "pending"
                   THEN [lazy EXCEPT ![name] = IF used THEN importOutcome(ok) ELSE "uninit"]
                   ELSE lazy
       IN  IF Unmounted
           THEN /\ lazy' = lz1
                /\ inflight' = [inflight EXCEPT ![name] = @ - 1]
                /\ UNCHANGED <<match, fetches, reads, screen>>
           ELSE LET r == retryRender(variant, Current, lz1, name)
                IN  /\ lazy' = LazyAfter(lz1, r.read)
                    /\ fetches' = Bump(fetches, r.read, Issued(lz1, r.read))
                    /\ inflight' = Bump([inflight EXCEPT ![name] = @ - 1], r.read, Issued(lz1, r.read))
                    /\ reads' = Bump(reads, r.read, r.read # "none")
                    /\ match' = r.match
                    /\ screen' = r.screen
    /\ UNCHANGED <<variant, entries, index, navs, test>>

\* FetchSettled that sends the user home when the import fails.
FetchSettled_redirect(name, ok) ==
    /\ inflight[name] > 0
    /\ settled' = Append(settled, name)
    /\ settledAway' = IF RouteRemote(variant, Current) = name THEN settledAway ELSE settledAway \cup {name}
    /\ LET lz1 == IF lazy[name] = "pending"
                  THEN [lazy EXCEPT ![name] = importOutcome(ok)]
                  ELSE lazy
       IN  IF Unmounted
           THEN /\ lazy' = lz1
                /\ inflight' = [inflight EXCEPT ![name] = @ - 1]
                /\ UNCHANGED <<match, fetches, reads, screen>>
           ELSE LET r == retryRender(variant, IF ok THEN Current ELSE << >>, lz1, name)
                IN  /\ lazy' = LazyAfter(lz1, r.read)
                    /\ fetches' = Bump(fetches, r.read, Issued(lz1, r.read))
                    /\ inflight' = Bump([inflight EXCEPT ![name] = @ - 1], r.read, Issued(lz1, r.read))
                    /\ reads' = Bump(reads, r.read, r.read # "none")
                    /\ match' = r.match
                    /\ screen' = r.screen
    /\ entries' = IF ok THEN entries ELSE [entries EXCEPT ![index] = Entry(<< >>)]
    /\ UNCHANGED <<variant, index, navs, test>>

\* An import() promise settles: the payload becomes resolved or rejected,
\* and unless the root is gone React renders the boundary again.
FetchSettled(name, ok) ==
    /\ inflight[name] > 0
    /\ settled' = Append(settled, name)
    /\ settledAway' = IF RouteRemote(variant, Current) = name THEN settledAway ELSE settledAway \cup {name}
    /\ LET lz1 == IF lazy[name] = "pending"
                  THEN [lazy EXCEPT ![name] = importOutcome(ok)]
                  ELSE lazy
       IN  IF Unmounted
           THEN /\ lazy' = lz1
                /\ inflight' = [inflight EXCEPT ![name] = @ - 1]
                /\ UNCHANGED <<match, fetches, reads, screen>>
           ELSE LET r == retryRender(variant, Current, lz1, name)
                IN  /\ lazy' = LazyAfter(lz1, r.read)
                    /\ fetches' = Bump(fetches, r.read, Issued(lz1, r.read))
                    /\ inflight' = Bump([inflight EXCEPT ![name] = @ - 1], r.read, Issued(lz1, r.read))
                    /\ reads' = Bump(reads, r.read, r.read # "none")
                    /\ match' = r.match
                    /\ screen' = r.screen
    /\ UNCHANGED <<variant, entries, index, navs, test>>

FetchResolved == \E name \in RemoteNames : FetchSettled(name, TRUE)

FetchRejected == \E name \in RemoteNames : FetchSettled(name, FALSE)

Navigate == \E to \in Paths : ClickLink(to)

Next == Navigate \/ Back \/ Forward \/ FetchResolved \/ FetchRejected

Spec == Init /\ [][Next]_vars

\* Every import() that has been issued eventually settles (the network
\* answers or fails every request).
FetchFairness ==
    \A name \in RemoteNames : WF_vars(\E ok \in BOOLEAN : FetchSettled(name, ok))

\* The two current Apps, each loaded at its home location.
InitFair == Init /\ variant \in {"shell", "host"} /\ Current = << >>

SpecFair == InitFair /\ [][Next]_vars /\ FetchFairness

TypeOK ==
    /\ variant \in Variants
    /\ index \in 1..Len(entries)
    /\ lazy \in [RemoteNames -> Status]
    /\ navs \in 0..MaxNavs
    /\ settledAway \subseteq RemoteNames
    /\ test.phase \in {"none", "idle", "rendered", "threw", "queried", "queryThrew"}
    /\ screen.kind \in {"view", "nomatch", "fallback", "unmounted"}

----------------------------------------------------------------------------
(* Helpers of the properties *)

IsPrefixOf(pre, p) == Len(p) >= Len(pre) /\ \A k \in 1..Len(pre) : p[k] = pre[k]

\* The earliest declared route whose pattern matches, 0 when none does.
FirstDeclared(routes, pathname) ==
    LET M == { i \in 1..Len(routes) : matchPath(routes[i].path, pathname) }
    IN  IF M = {} THEN 0 ELSE CHOOSE i \in M : \A j \in M : i <= j

\* The remote read by the route the router currently holds ("none" for a
\* local element or no route).
MatchedRemote ==
    IF match.route = 0 THEN "none" ELSE AppRoutes(variant)[match.route].element.remote

MatchedEl ==
    IF match.route = 0 THEN "none" ELSE AppRoutes(variant)[match.route].element.el

----------------------------------------------------------------------------
(* C1 - Route matching is first-match-wins in declaration order: in every  *)
(* state the route the router holds for its location is the earliest       *)
(* declared pattern of the App's table that matches that location (none if *)
(* no pattern matches); a path matching an earlier pattern is never routed *)
(* to a later one.                                                         *)
C1_FirstMatchWins ==
    match.route = FirstDeclared(AppRoutes(variant), match.pathname)

\* A navigation has selected a route that is not the first of the table.
C1_Witness ==
    /\ navs > 0
    /\ match.route >= 2
    /\ match.pathname = Current

(* C2 - For every route declared with a wildcard suffix, every location    *)
(* that is the mount prefix or lies under it selects that route, and the   *)
(* part of the location after the prefix is handed on unchanged (prefix    *)
(* followed by the remainder is the location; the rendered remote view     *)
(* carries the same remainder).                                            *)
C2_WildcardMount ==
    \A i \in 1..Len(AppRoutes(variant)) :
        LET pat == AppRoutes(variant)[i].path
        IN  (HasSplat(pat) /\ IsPrefixOf(Prefix(pat), match.pathname))
            => /\ match.route = i
               /\ Prefix(pat) \o match.rest = match.pathname
               /\ (screen.kind = "view" => /\ screen.el = AppRoutes(variant)[i].element.el
                                           /\ screen.rest = match.rest)

\* The contact remote is on screen at a sub-path of its mount point.
C2_Witness ==
    /\ variant = "host"
    /\ match.pathname = <<"contact", "success">>
    /\ match.rest = <<"success">>
    /\ screen = Screen("view", "ContactUs", <<"success">>)

(* C3 - While the resolution of a remote name is pending, however many     *)
(* times it has been requested, exactly one import() for that name is in   *)
(* flight (and never more than one in any state).                          *)
C3_SingleFetchInFlight ==
    \A n \in RemoteNames :
        /\ inflight[n] <= 1
        /\ (lazy[n] = "pending" => inflight[n] = 1)

\* A remote was left and entered again while still pending.
C3_Witness ==
    \E n \in RemoteNames :
        /\ lazy[n] = "pending"
        /\ reads[n] >= 2
        /\ navs >= 2
        /\ MatchedRemote = n
        /\ inflight[n] = 1

(* C4 - Each symbolic remote name is fetched at most once in the lifetime  *)
(* of the application, whatever the navigations.                           *)
C4_FetchedAtMostOnce ==
    \A n \in RemoteNames : fetches[n] <= 1

\* A remote route was visited again after its module had settled.
C4_Witness ==
    \E n \in RemoteNames :
        /\ fetches[n] = 1
        /\ lazy[n] \in {"resolved", "rejected"}
        /\ inflight[n] = 0
        /\ reads[n] >= 3
        /\ navs >= 2

(* C5 - If the fetch of the remote module of the current route fails, the  *)
(* boundary around that route shows an error placeholder in place of the   *)
(* view: neither the pending placeholder nor an empty region is left.      *)
C5_FailedShowsErrorPlaceholder ==
    (MatchedRemote # "none" /\ lazy[MatchedRemote] = "rejected")
        => screen.kind = "error"

(* C6 - After the fetch of the remote for /coming-soon has failed, the     *)
(* shell's other routes stay usable: at / the local home view is rendered  *)
(* and at /contact-us the contact remote is loading or rendered.           *)
C6_SiblingsUsableAfterFailure ==
    (variant \in {"shell", "shellPrev"} /\ lazy["comingSoon"] = "rejected")
        => /\ Current = << >> => screen = Screen("view", "NxWelcome", << >>)
           /\ Current = <<"contact-us">> =>
                \/ screen = Screen("view", "ContactUs", << >>)
                \/ screen.kind = "fallback" /\ lazy["contactUs"] = "pending"

(* C7 - In every reachable state, whatever failures have occurred, the     *)
(* application is not in a global unhandled-failure state: the root is     *)
(* still mounted, so the shell's navigation links are still there.         *)
C7_NoGlobalFailure == ~Unmounted

\* The current route's element is a remote other than name, which was
\* requested earlier: name's resolution has been abandoned.
Abandoned(name) ==
    /\ reads[name] > 0
    /\ match.pathname = Current
    /\ MatchedRemote # name

(* C8 - When the resolution of a remote that the user has navigated away   *)
(* from completes (success or failure), what is displayed does not change  *)
(* and is still the rendering of the route of the most recent navigation,  *)
(* also when the abandoned remote settles after the newer one.             *)
C8_StaleResultDiscarded ==
    [][\A name \in RemoteNames : \A ok \in BOOLEAN :
          (FetchSettled(name, ok) /\ Abandoned(name))
              => /\ screen' = screen
                 /\ match' = match
                 /\ (screen'.kind = "view" => screen'.el = MatchedEl)]_vars

\* The abandoned remote settled after the remote of the newer navigation,
\* whose view is on screen.
C8_Witness ==
    /\ Len(settled) = 2
    /\ settled[1] = MatchedRemote
    /\ settled[2] # MatchedRemote
    /\ lazy[settled[2]] \in {"resolved", "rejected"}
    /\ match.pathname = Current
    /\ screen.kind = "view"
    /\ screen.el = MatchedEl

(* C9 - For every path that matches none of the declared route patterns    *)
(* the shell renders the designated not-found view, never an empty page.   *)
C9_NoMatchShowsNotFound ==
    match.route = 0 => screen = Screen("view", "NotFound", << >>)

(* C10 (as stated) - After an initial load at /, in every App, as long as  *)
(* the current path is / the view of / is a local one that needs no remote *)
(* fetch and the fallback placeholder is not shown.                        *)
C10_HomeIsLocalEverywhere ==
    (entries[1].pathname = << >> /\ Current = << >>)
        => /\ screen.kind # "fallback"
           /\ (screen.kind = "view" => screen.el = "NxWelcome")
           /\ (navs = 0 => /\ screen = Screen("view", "NxWelcome", << >>)
                           /\ \A n \in RemoteNames : fetches[n] = 0)

(* C10 (amended) - In the two shell Apps of apps/landing-page, after an    *)
(* initial load at /, as long as the current path is / the fallback        *)
(* placeholder is not shown and any view on screen is the local home view; *)
(* before the first navigation that view is on screen and no remote fetch  *)
(* has been issued.                                                        *)
C10_ShellHomeIsLocal ==
    (variant \in {"shell", "shellPrev"} /\ entries[1].pathname = << >> /\ Current = << >>)
        => /\ screen.kind # "fallback"
           /\ (screen.kind = "view" => screen.el = "NxWelcome")
           /\ (navs = 0 => /\ screen = Screen("view", "NxWelcome", << >>)
                           /\ \A n \in RemoteNames : fetches[n] = 0)

\* The user is back at / after visiting a remote route.
C10_Witness ==
    /\ variant = "shell"
    /\ entries[1].pathname = << >>
    /\ Current = << >>
    /\ navs >= 2
    /\ \E n \in RemoteNames : fetches[n] = 1
    /\ screen = Screen("view", "NxWelcome", << >>)

----------------------------------------------------------------------------
\* A navigation event happens in this step.
NavStep == navs' = navs + 1

C11_Step ==
    variant \in {"shell", "shellPrev"} =>
        /\ (NavStep /\ Current' = <<"contact-us">> /\ lazy["contactUs"] \in {"uninit", "pending"})
              => /\ lazy'["contactUs"] = "pending"
                 /\ screen' = Screen("fallback", "null", << >>)
        /\ (FetchSettled("contactUs", TRUE) /\ Current = <<"contact-us">>
              /\ lazy["contactUs"] = "pending")
              => screen' = Screen("view", "ContactUs", << >>)

C11_AtLoad ==
    (variant \in {"shell", "shellPrev"} /\ navs = 0 /\ Current = <<"contact-us">>
        /\ lazy["contactUs"] = "pending")
        => screen = Screen("fallback", "null", << >>)

(* C11 - In the landing-page shells, every navigation to /contact-us while *)
(* the contact remote is not yet resolved leaves its lazy payload pending  *)
(* with the Suspense fallback on screen (also at the initial load), and    *)
(* when the fetch then succeeds with the user still on that route the      *)
(* ContactUs view replaces the fallback.                                   *)
C11_ContactPendingThenView == []C11_AtLoad /\ [][C11_Step]_vars

\* The contact view is on screen after a navigation that found it pending.
C11_Witness ==
    /\ variant = "shell"
    /\ navs >= 1
    /\ entries[1].pathname = << >>
    /\ Current = <<"contact-us">>
    /\ settled = <<"contactUs">>
    /\ reads["contactUs"] = 2
    /\ screen = Screen("view", "ContactUs", << >>)

(* C12 - In the host shell the path /contact-us/success selects the        *)
(* contact remote's entry and hands the remainder /success to it.          *)
C12_ContactSuccessDelegated ==
    (variant \in {"shell", "shellPrev"} /\ match.pathname = <<"contact-us", "success">>)
        => /\ MatchedRemote = "contactUs"
           /\ match.rest = <<"success">>

(* C13 - Every route of the App's route table whose element is a remote    *)
(* module is declared with a wildcard suffix.                              *)
C13_RemoteRoutesAreWildcards ==
    \A i \in 1..Len(AppRoutes(variant)) :
        AppRoutes(variant)[i].element.remote # "none" => HasSplat(AppRoutes(variant)[i].path)

(* C14 - While the remote module of the current route is being resolved,   *)
(* the navigation links of the shell stay rendered and usable.             *)
C14_NavStaysDuringPending ==
    (match.pathname = Current /\ MatchedRemote # "none" /\ lazy[MatchedRemote] = "pending")
        => NavRendered

C15_Step == NavStep => match' = matchRoutes(AppRoutes(variant), Current')

(* C15 - Every navigation event updates the matched route in the step in   *)
(* which it occurs, also when the matched view still has to load: after    *)
(* every navigation step the router holds the match of the new location,   *)
(* so the committed matches follow the navigation events one for one.      *)
C15_MatchFollowsNavigation == [][C15_Step]_vars

C16_Step ==
    \A n \in RemoteNames :
        lazy[n] = "rejected"
            => /\ lazy'[n] = "rejected"
               /\ fetches'[n] = fetches[n]
               /\ inflight'[n] = inflight[n]
               /\ ~(screen'.kind = "view" /\ screen'.el = LazyEl(n))

(* C16 - Failed is terminal: once the resolution of a remote has been      *)
(* rejected it stays rejected in every later step, and no later step, in   *)
(* particular a navigation to its route, starts a new fetch for it or puts *)
(* its view on screen.                                                     *)
C16_FailedIsTerminal == [][C16_Step]_vars

\* The contact remote failed while the user was on /coming-soon (whose
\* resolved view was rendered again by the retry), and its route was then
\* entered again.
C16_Witness ==
    /\ variant = "shell"
    /\ lazy["contactUs"] = "rejected"
    /\ lazy["comingSoon"] = "resolved"
    /\ fetches["contactUs"] = 1
    /\ reads["contactUs"] = 2
    /\ reads["comingSoon"] = 4
    /\ navs = 3
    /\ Current = <<"contact-us">>
    /\ match.pathname = <<"contact-us">>
    /\ Unmounted

C17_Step ==
    \A n \in RemoteNames :
        (FetchSettled(n, FALSE) /\ lazy[n] = "pending")
            => /\ lazy'[n] = "rejected"
               /\ ~(screen'.kind = "view" /\ screen'.el = LazyEl(n))
               /\ (Current = match.pathname /\ MatchedRemote = n) => screen'.kind = "unmounted"

(* C17 - When the fetch of a remote fails the loader records an error      *)
(* outcome, never a resolved module: the payload becomes rejected, the     *)
(* remote's view is not rendered, and a caller rendering that remote gets  *)
(* the error thrown at it.                                                 *)
C17_FailureSurfaced == [][C17_Step]_vars

\* A fetch failed while its route was current and the error reached the
\* render.
C17_Witness ==
    \E n \in RemoteNames :
        /\ lazy[n] = "rejected"
        /\ settled = << n >>
        /\ navs = 0
        /\ MatchedRemote = n
        /\ screen.kind = "unmounted"

C18_Step ==
    (NavStep /\ entries' = entries /\ index' # index)
        => /\ entries'[index'] = entries[index']
           /\ match' = matchRoutes(AppRoutes(variant), entries[index'].pathname)
           /\ screen' = RenderApp(variant, entries[index'].pathname, lazy).screen

(* C18 - Back and forward are inverse over the history stack: a back or    *)
(* forward step makes the entry it moves to current again, with the path   *)
(* and payload that entry was created with, and restores the match and the *)
(* view of that path.                                                      *)
C18_BackForwardRestore == [][C18_Step]_vars

C19_Step ==
    /\ ~NavStep => (entries' = entries /\ index' = index)
    /\ \A n \in RemoteNames : \A ok \in BOOLEAN :
           FetchSettled(n, ok) => /\ entries' = entries
                                  /\ index' = index
                                  /\ match'.pathname = match.pathname

(* C19 - The navigation state (history entries with their paths and        *)
(* payloads, history position, the location the router holds) changes only *)
(* in navigation steps; the settling of a remote fetch, success or         *)
(* failure, leaves it unchanged.                                           *)
C19_NavStateFrame == [][C19_Step]_vars

\* One fetch has succeeded and one has failed, and the history is still
\* exactly what the navigations (all of them pushes) made it.
C19_Witness ==
    /\ \E a, b \in RemoteNames : lazy[a] = "resolved" /\ lazy[b] = "rejected"
    /\ Len(settled) = 2
    /\ navs = 2
    /\ Len(entries) = 3
    /\ index = 3

C20_Step ==
    \A n \in RemoteNames :
        lazy[n] = "resolved"
            => /\ lazy'[n] = "resolved"
               /\ fetches'[n] = fetches[n]
               /\ (match'.route # 0 /\ AppRoutes(variant)[match'.route].element.remote = n)
                     => screen' = Screen("view", LazyEl(n), match'.rest)

(* C20 - The module-resolution cache is append-only: a remote name that is *)
(* resolved stays resolved in every later step, with no new fetch, and     *)
(* whenever the route the router holds uses it the remote's view is on     *)
(* screen at once, never the fallback.                                     *)
C20_CacheAppendOnly == [][C20_Step]_vars

\* A resolved remote's route was left and entered again; its view is shown.
C20_Witness ==
    \E n \in RemoteNames :
        /\ lazy[n] = "resolved"
        /\ reads[n] >= 3
        /\ navs >= 2
        /\ match.pathname = Current
        /\ MatchedRemote = n
        /\ screen = Screen("view", LazyEl(n), match.rest)

----------------------------------------------------------------------------
C21_Step ==
    \A n \in RemoteNames :
        /\ (NavStep /\ lazy[n] = "pending")
              => /\ lazy'[n] = "pending"
                 /\ inflight'[n] = inflight[n]
                 /\ inflight'[n] > 0
        /\ \A ok \in BOOLEAN :
              (FetchSettled(n, ok) /\ Abandoned(n) /\ lazy[n] = "pending")
                  => /\ lazy'[n] = importOutcome(ok)
                     /\ inflight'[n] = 0
                     /\ screen' = screen
                     /\ reads'[n] = reads[n]

(* C21 - Navigating away from a remote that is still pending does not      *)
(* abort its resolution: the import stays in flight through every          *)
(* navigation step, it completes with its outcome recorded in the lazy     *)
(* payload, and at completion nothing on screen changes and the remote is  *)
(* not rendered.                                                           *)
C21_NotAbortedAndDiscarded == [][C21_Step]_vars

\* A remote requested once has settled while another route was current.
C21_Witness ==
    /\ Len(settled) = 1
    /\ lazy[settled[1]] \in {"resolved", "rejected"}
    /\ reads[settled[1]] = 1
    /\ navs >= 1
    /\ match.pathname = Current
    /\ MatchedRemote # settled[1]
    /\ NavRendered

-----------------------------------------------------------------------------
(* The unit test of the landing-page App: render(<App />), getAllByText *)

\* The text of each element of the landing-page App, in document order
\* (white space collapsed, the copyright sign written (c)).
LandingTexts ==
    << "Ferris Intelligence: Sovereign AI for Regulated Industries.",
       "Deploy RAG pipelines and Edge Agents without data leaving your infrastructure. Specialized for Maritime and Fintech.",
       "Offline-First Inference",
       "Run AI models entirely on-premise or at the edge. No cloud dependency, no data exposure.",
       "Latency-Optimized Quantization",
       "Purpose-built model compression for real-time inference on resource-constrained hardware.",
       "Audit-Grade Observability",
       "Complete traceability of every inference. Built for compliance with maritime and financial regulations.",
       "(c) 2026 Ferris Intelligence. All rights reserved." >>

\* The texts of the full landing page (an earlier version of the App).
LandingFullTexts ==
    << "Ferris Intelligence",
       "Features",
       "Use Cases",
       "Contact",
       "Get Started",
       "Sovereign AI for Regulated Industries",
       "Deploy AI Without",
       "Compromising Security",
       "Deploy RAG pipelines and Edge Agents without data leaving your infrastructure.",
       "Specialized for Maritime and Fintech industries.",
       "Get Started",
       "Learn More",
       "Enterprise-Grade Security",
       "100% On-Premise",
       "Regulatory Compliant",
       "Enterprise-Grade",
       "AI Infrastructure",
       "Built for organizations that require complete control over their AI operations",
       "Offline-First Inference",
       "Run AI models entirely on-premise or at the edge. No cloud dependency, no data exposure. Complete sovereignty over your AI operations.",
       "Latency-Optimized",
       "Purpose-built model compression for real-time inference on resource-constrained hardware. Achieve response times.",
       "sub-100ms",
       "Audit-Grade Observability",
       "Complete traceability of every inference. Built for compliance with maritime and financial regulations. Full audit trails included.",
       "Built for Your",
       "Industry",
       "Specialized solutions for regulated industries",
       "Maritime",
       "Vessel route optimization with on-board AI",
       "Predictive maintenance for critical systems",
       "Compliance with SOLAS and IMO regulations",
       "Fintech",
       "Fraud detection with zero data exfiltration",
       "Risk assessment models on-premise",
       "GDPR and PCI-DSS compliant AI operations",
       "Ready to Deploy",
       "Sovereign AI?",
       "Join leading organizations that trust Ferris Intelligence for their mission-critical AI infrastructure.",
       "Schedule a Demo",
       "Ferris Intelligence",
       "Sovereign AI infrastructure for regulated industries. Deploy AI without compromising security.",
       "Product",
       "Features",
       "Use Cases",
       "Pricing",
       "Company",
       "Contact",
       "About",
       "Careers",
       "(c) 2026 Ferris Intelligence. All rights reserved.",
       "Privacy",
       "Terms" >>

\* The texts of the first landing page.
LandingFirstTexts ==
    << "Welcome to Our Platform",
       "Discover amazing features and transform your workflow with our cutting-edge solutions",
       "Get Started",
       "Learn More",
       "Key Features",
       "Lightning Fast",
       "Experience blazing-fast performance with our optimized platform. Get things done in record time.",
       "Secure & Reliable",
       "Your data is protected with enterprise-grade security measures. Trust us with your most important information.",
       "Easy to Use",
       "Intuitive interface designed for everyone. No technical expertise required to get started.",
       "Ready to Get Started?",
       "Join thousands of satisfied users who have transformed their workflow with our platform.",
       "Start Your Free Trial",
       "(c) 2024 Your Company Name. All rights reserved." >>

\* The versions of the module ./app that the test file has stood beside.
TestApps == {"landing", "landingFull", "landingFirst", "shell", "shellPrev"}

\* The versions that are the entry view of the landingPage remote.
RemoteEntryApps == {"landing", "landingFull", "landingFirst"}

AppTexts(app) ==
    CASE app = "landing"      -> LandingTexts
      [] app = "landingFull"  -> LandingFullTexts
      [] app = "landingFirst" -> LandingFirstTexts
      [] OTHER                -> << >>

\* usesRouter of a landing page whose navigation is made of <Link>s.
usesRouter_landingLinks(app) == TRUE

\* An App that renders <Link> and <Routes> needs a Router above it; the
\* landing pages use plain elements and anchors only.
usesRouter(app) == app \in {"shell", "shellPrev"}

UpperCase == "ABCDEFGHIJKLMNOPQRSTUVWXYZ"

LowerCase == "abcdefghijklmnopqrstuvwxyz"

charAt(s, k) == SubSeq(s, k, k)

lowerChar(c) ==
    IF \E k \in 1..Len(UpperCase) : charAt(UpperCase, k) = c
    THEN charAt(LowerCase, CHOOSE k \in 1..Len(UpperCase) : charAt(UpperCase, k) = c)
    ELSE c

RECURSIVE toLowerCase(_)
toLowerCase(s) ==
    IF Len(s) = 0 THEN s
    ELSE IF Len(s) = 1 THEN lowerChar(s)
    ELSE LET h == Len(s) \div 2
         IN  toLowerCase(SubSeq(s, 1, h)) \o toLowerCase(SubSeq(s, h + 1, Len(s)))

\* The flags a RegExp is built with; "g" has no effect on a single test of
\* a text (the matcher resets lastIndex).
Flags == {"gi", "g", "i", ""}

ignoreCase(flags) == flags \in {"gi", "i"}

\* The pattern of the test and other literal patterns (no metacharacters).
WelcomePattern == "Welcome to Our Platform"

Patterns ==
    { WelcomePattern, "welcome to our platform", "WELCOME TO OUR PLATFORM",
      "Welcome", "our platform", "Ferris Intelligence", "ferris intelligence",
      "Get Started", "sovereign ai", "All rights reserved." }

\* new RegExp(pattern, flags).test(text) for a literal pattern: the pattern
\* occurs somewhere in the text, letters compared without case under i.
regExpTest(pattern, flags, text) ==
    LET p == IF ignoreCase(flags) THEN toLowerCase(pattern) ELSE pattern
        t == IF ignoreCase(flags) THEN toLowerCase(text) ELSE text
    IN  \E k \in 1..(Len(t) + 1) :
            /\ k + Len(p) - 1 <= Len(t)
            /\ SubSeq(t, k, k + Len(p) - 1) = p

\* The elements whose own text matches.
matchingNodes(texts, pattern, flags) ==
    { i \in 1..Len(texts) : regExpTest(pattern, flags, texts[i]) }

\* A test case starts with the module under test imported and nothing
\* rendered; the browser application plays no part in it and stays as
\* loaded.
InitTest ==
    /\ InitApp
    /\ variant = "shell"
    /\ Current = << >>
    /\ \E app \in TestApps : test = [NoTest EXCEPT !.app = app, !.phase = "idle"]

\* render(<App />): no props, no wrapper. An App that needs a Router throws
\* while rendering; otherwise the result holds document.body.
Render ==
    /\ test.phase = "idle"
    /\ test' = IF usesRouter(test.app)
               THEN [test EXCEPT !.phase = "threw"]
               ELSE [test EXCEPT !.phase = "rendered", !.baseElement = "body"]
    /\ UNCHANGED <<variant, entries, index, match, lazy, fetches, inflight, reads>>
    /\ UNCHANGED <<settled, settledAway, screen, navs>>

\* getAllByText(new RegExp(pattern, flags)): the matching elements, or an
\* error when there is none.
GetAllByText(pattern, flags) ==
    /\ test.phase = "rendered"
    /\ LET found == Cardinality(matchingNodes(AppTexts(test.app), pattern, flags))
       IN  test' = [test EXCEPT !.phase = IF found = 0 THEN "queryThrew" ELSE "queried",
                                !.pattern = pattern, !.flags = flags, !.found = found]
    /\ UNCHANGED <<variant, entries, index, match, lazy, fetches, inflight, reads>>
    /\ UNCHANGED <<settled, settledAway, screen, navs>>

Query == \E pattern \in Patterns, flags \in Flags : GetAllByText(pattern, flags)

NextTest == Render \/ Query

SpecTest == InitTest /\ [][NextTest]_vars

C23_WelcomeMessageFound ==
    (/\ test.app \in RemoteEntryApps
     /\ test.phase \in {"queried", "queryThrew"}
     /\ toLowerCase(test.pattern) = toLowerCase(WelcomePattern)
     /\ ignoreCase(test.flags))
        => (test.phase = "queried" /\ test.found > 0)

-----------------------------------------------------------------------------
(* Module federation configuration of the shell *)

\* The value of the environment variable NX_MF_DEV_REMOTES.
EnvValues == {"1", "0", "unset"}

isDev(env) == env = "1"

\* ShellRemotes whose production list leaves out the landing page.
ShellRemotes_prodWithoutLanding(dev) ==
    IF dev
    THEN << <<"comingSoon">>, <<"contactUs">>, <<"landingPage">> >>
    ELSE << <<"comingSoon", "/remotes/coming-soon/remoteEntry.js">>,
            <<"contactUs", "/remotes/contact-us/remoteEntry.js">> >>

\* The remotes of the shell: bare names in development, [name, url] pairs
\* in production.
ShellRemotes(dev) ==
    IF dev
    THEN << <<"comingSoon">>, <<"contactUs">>, <<"landingPage">> >>
    ELSE << <<"comingSoon", "/remotes/coming-soon/remoteEntry.js">>,
            <<"contactUs", "/remotes/contact-us/remoteEntry.js">>,
            <<"landingPage", "/remotes/landing-page/remoteEntry.js">> >>

\* The remotes of the earlier shell: the same pairs whatever the switch.
ShellPrevRemotes(dev) ==
    << <<"comingSoon", "/remotes/coming-soon/remoteEntry.js">>,
       <<"contactUs", "/remotes/contact-us/remoteEntry.js">> >>

\* The configuration that goes with each shell App (the coming-soon App is
\* not the shell and has no configuration here).
remotes(v, dev) ==
    CASE v = "shell"     -> ShellRemotes(dev)
      [] v = "shellPrev" -> ShellPrevRemotes(dev)
      [] OTHER           -> << >>

\* The symbolic name of a remotes entry: the entry itself when it is a bare
\* name, the first component of a pair.
remoteName(entry) == entry[1]

DeclaredNames(v, env) ==
    { remoteName(remotes(v, isDev(env))[i]) : i \in 1..Len(remotes(v, isDev(env))) }

\* The names an App loads lazily: the remotes of its route elements.
LazyNames(v) ==
    { AppRoutes(v)[i].element.remote : i \in 1..Len(AppRoutes(v)) } \ {"none"}

(* C24 - For every value of the switch NX_MF_DEV_REMOTES the configuration *)
(* of the shell declares the same set of remote names, that set contains   *)
(* every name the shell App loads lazily, and so every remote the shell    *)
(* has issued an import() for is declared under both addressing schemes.   *)
C24_SameNamesBothSchemes ==
    variant \in {"shell", "shellPrev"} =>
        \A env \in EnvValues :
            /\ DeclaredNames(variant, env) = DeclaredNames(variant, "1")
            /\ LazyNames(variant) \subseteq DeclaredNames(variant, env)
            /\ \A n \in RemoteNames : fetches[n] > 0 => n \in DeclaredNames(variant, env)

\* The shell has issued the import() of the landing page, the name that
\* only the later configuration declares.
C24_Witness ==
    /\ variant = "shell"
    /\ fetches["landingPage"] = 1
    /\ LazyNames(variant) = {"contactUs", "comingSoon", "landingPage"}
    /\ Len(remotes(variant, TRUE)) = 3
    /\ Len(remotes(variant, FALSE)) = 3

C25_NoFetchBeforeRender ==
    \A n \in RemoteNames :
        reads[n] = 0 => (fetches[n] = 0 /\ inflight[n] = 0 /\ lazy[n] = "uninit")

C25_Step ==
    \A n \in RemoteNames :
        fetches'[n] > fetches[n]
            => /\ match'.pathname = Current'
               /\ match'.route # 0
               /\ AppRoutes(variant)[match'.route].element.remote = n
               /\ reads'[n] = reads[n] + 1

(* C25 - Remotes are loaded only when needed: an import() for a remote is  *)
(* issued only in a step that renders a route whose element is that        *)
(* remote, and while a remote has never been rendered (at the initial load *)
(* and ever after) no fetch for it has been issued.                        *)
C25_LoadedOnlyWhenNeeded == []C25_NoFetchBeforeRender /\ [][C25_Step]_vars

\* One remote has been fetched for its route, the others not at all.
C25_Witness ==
    /\ variant = "shell"
    /\ navs >= 2
    /\ fetches["comingSoon"] = 1
    /\ reads["comingSoon"] >= 1
    /\ fetches["contactUs"] = 0
    /\ fetches["landingPage"] = 0
    /\ lazy["contactUs"] = "uninit"

\* The remote of the route that a navigation step makes current.
TargetRemote ==
    LET m == matchRoutes(AppRoutes(variant), Current')
    IN  IF m.route = 0 THEN "none" ELSE AppRoutes(variant)[m.route].element.remote

C26_Step ==
    \A n \in RemoteNames :
        /\ (FetchSettled(n, TRUE) /\ Abandoned(n) /\ lazy[n] = "pending")
              => lazy'[n] = "resolved"
        /\ (NavStep /\ lazy[n] = "resolved" /\ TargetRemote = n)
              => /\ fetches'[n] = fetches[n]
                 /\ lazy'[n] = "resolved"
                 /\ screen'.kind # "fallback"
                 /\ (reads[n] = 1 => screen' = Screen("view", LazyEl(n), match'.rest))

(* C26 - A resolution that succeeds after the user has navigated away is   *)
(* recorded for its name: the payload becomes resolved, and when the user  *)
(* then returns to that route the remote's view is rendered in the same    *)
(* step, with no second fetch and no fallback (no later navigation to the  *)
(* route fetches again or shows the fallback either).                      *)
C26_AbandonedResultKept == [][C26_Step]_vars

\* The user is back on a route whose remote resolved while they were away.
C26_Witness ==
    \E n \in settledAway :
        /\ lazy[n] = "resolved"
        /\ fetches[n] = 1
        /\ match.pathname = Current
        /\ MatchedRemote = n
        /\ screen = Screen("view", LazyEl(n), match.rest)

C27_Step ==
    \A to \in Paths :
        ClickLink(to) => /\ match'.pathname = to
                         /\ match'.route # 0
                         /\ screen'.kind # "nomatch"

(* C27 - In every App variant the target of every navigation link matches  *)
(* a declared route: activating a link always leads to a state whose       *)
(* current path is matched by a route, never to the no-match outcome.      *)
C27_LinksMatchRoutes == [][C27_Step]_vars

\* The contact link of the coming-soon App was activated and matched its
\* wildcard route.
C27_Witness ==
    /\ variant = "host"
    /\ navs >= 1
    /\ index = Len(entries)
    /\ index >= 2
    /\ Current = <<"contact">>
    /\ match.route = 2

\* The table with its declarations in another order.
Reordered(routes, f) == [i \in 1..Len(routes) |-> routes[f[i]]]

Selected(routes, pathname) ==
    LET m == matchRoutes(routes, pathname)
    IN  IF m.route = 0 THEN "none" ELSE routes[m.route].path

(* C28 - In every App route table the declared patterns are pairwise       *)
(* disjoint: the location the router holds is matched by at most one       *)
(* pattern, and the route selected for it is the same under every          *)
(* reordering of the declarations.                                         *)
C28_PatternsDisjoint ==
    LET R == AppRoutes(variant)
    IN  /\ Cardinality({ i \in 1..Len(R) : matchPath(R[i].path, match.pathname) }) <= 1
        /\ \A f \in Permutations(1..Len(R)) :
               Selected(Reordered(R, f), match.pathname) = Selected(R, match.pathname)
        /\ match.route # 0 => Selected(R, match.pathname) = R[match.route].path

\* The last route of the four-route table is the one selected.
C28_Witness ==
    /\ variant = "shell"
    /\ navs >= 1
    /\ match.pathname = Current
    /\ match.route = 4

(* C29 - When every issued fetch eventually settles, a pending remote      *)
(* eventually becomes resolved or failed, and a fallback placeholder on     *)
(* screen is eventually replaced: no boundary stays pending forever.        *)
C29_PendingEnds ==
    /\ \A n \in RemoteNames :
           (lazy[n] = "pending") ~> (lazy[n] \in {"resolved", "rejected"})
    /\ (screen.kind = "fallback") ~> (screen.kind # "fallback")

\* Two remotes were pending at once; both have settled, one each way, and
\* no fallback is on screen.
C29_Witness ==
    /\ Len(settled) = 2
    /\ lazy[settled[1]] = "rejected"
    /\ lazy[settled[2]] = "resolved"
    /\ \A n \in RemoteNames : lazy[n] # "pending" /\ inflight[n] = 0
    /\ screen.kind # "fallback"

====
